---------------------------- MODULE Spec2Model ----------------------------
(***************************************************************************)
(* Control-flow-graph construction and dead-code detection of the PHP      *)
(* static analyzer (cfg.go).  The graph store (CFG.AddNode / CFG.AddEdge), *)
(* the loop context stack (depthStack), the lowering walker                *)
(* (CFGBuilder.visit and its helpers), the driver (CFGBuilder.BuildCFG)    *)
(* and the reachability scan (CFG.DetectDeadCode) are translated from the  *)
(* Go source.  The tree-sitter syntax tree the walker consumes is the      *)
(* input: a bounded family of PHP syntax trees.                            *)
(***************************************************************************)
EXTENDS Integers, Sequences, FiniteSets, TLC

VARIABLES
    cfg,       \* CFGBuilder.cfg: [Nodes, Edges]
    nextID,    \* CFGBuilder.nextID
    depth,     \* CFGBuilder.depth.s, the loop context stack
    source,    \* the syntax tree of the source handed to BuildCFG (Nil before)
    ret,       \* outcome of the last BuildCFG call: "none", "ok" or "error"
    dead,      \* the slice returned by the last DetectDeadCode call
    scans,     \* number of DetectDeadCode calls made on the built CFG
    lastCall,  \* the last graph-store call made by a client of CFG
    log        \* history variable: what the walker did, in emission order

vars == <<cfg, nextID, depth, source, ret, dead, scans, lastCall, log>>

---------------------------------------------------------------------------
(* Bounds of the model.                                                    *)

\* Statements (simple or compound) in one input program.
MaxStmts == 3
\* Identifiers a client of the graph store may use (store specification).
MaxStoreId == 2
\* Longest successor list a client of the graph store builds.
MaxSucc == 2
\* DetectDeadCode calls made on one built CFG.
MaxScans == 2
MaxBuilds == 2
MaxReuseStmts == 1

---------------------------------------------------------------------------
(* Constants of the program.                                               *)

Terminal == -1

NodeEntry        == "Entry"
NodeExit         == "Exit"
NodeIf           == "If"
NodeIfEnd        == "IfEnd"
NodeWhile        == "While"
NodeWhileEnd     == "WhileEnd"
NodeFor          == "For"
NodeBreak        == "Break"
NodeContinue     == "Continue"
NodeFunctionCall == "FunctionCall"
NodeCallBegin    == "CallBegin"
NodeCallEnd      == "CallEnd"
NodeRetValue     == "RetValue"
NodeId           == "id"
NodeArgumentList == "ArgumentList"
NodeArgument     == "Argument"
NodeVariable     == "Variable"
NodeBinOp        == "BinOP"
NodeRelOp        == "RelOP"
NodeCondition    == "Condition"
NodeString       == "String"
NodeStringLiteral == "StringLiteral"
NodeInteger      == "Integer"
NodeEcho         == "Echo"
NodeHtml         == "Html"

---------------------------------------------------------------------------
(* The syntax tree (sitter.Node) consumed by the walker.  A node has a     *)
(* grammar rule name, the source text it spans, its children (anonymous    *)
(* tokens included) and, per field name, the 1-based position of the child *)
(* that carries the field (0: no such child).                              *)

NoFields == [condition |-> 0, body |-> 0, alternative |-> 0, arguments |-> 0]

Nil == [type |-> "nil", text |-> "", kids |-> <<>>, fields |-> NoFields]

Type(node) == node.type

Content(node) == node.text

ChildCount(node) == Len(node.kids)

\* node.Child(i), 0-based; nil when i is out of range
Child(node, i) ==
    IF 0 <= i /\ i < Len(node.kids) THEN node.kids[i + 1] ELSE Nil

ChildByFieldName(node, name) ==
    IF node.fields[name] = 0 THEN Nil ELSE node.kids[node.fields[name]]

---------------------------------------------------------------------------
(* Graph store.                                                            *)

NewCFG == [Nodes |-> <<>>, Edges |-> <<>>]

\* cfg.Edges[id] of a Go map: the nil slice when id is no key
Succ(g, id) == IF id \in DOMAIN g.Edges THEN g.Edges[id] ELSE <<>>

AddNode(g, nodeType, codeSnippet, id) ==
    [g EXCEPT !.Nodes =
        (id :> [ID |-> id, Type |-> nodeType, code |-> codeSnippet]) @@ g.Nodes]

AddEdge_NoSelfGuard(g, src, dst) ==
    IF src # Terminal
    THEN [g EXCEPT !.Edges = (src :> Append(Succ(g, src), dst)) @@ g.Edges]
    ELSE g

AddEdge_NoTerminalGuard(g, src, dst) ==
    IF src # dst
    THEN [g EXCEPT !.Edges = (src :> Append(Succ(g, src), dst)) @@ g.Edges]
    ELSE g

\* a store that keeps each successor once
AddEdge_Dedup(g, src, dst) ==
    IF src # dst /\ src # Terminal /\ \A i \in 1..Len(Succ(g, src)) : Succ(g, src)[i] # dst
    THEN [g EXCEPT !.Edges = (src :> Append(Succ(g, src), dst)) @@ g.Edges]
    ELSE g

AddEdge(g, src, dst) ==
    IF src # dst /\ src # Terminal
    THEN [g EXCEPT !.Edges = (src :> Append(Succ(g, src), dst)) @@ g.Edges]
    ELSE g

---------------------------------------------------------------------------
(* Loop context stack.                                                     *)

push(s, typ, start, end) == Append(s, [typ |-> typ, start |-> start, end |-> end])

\* a pop that leaves the frame on the stack
pop_Keep(s) == s

pop(s) == IF Len(s) > 0 THEN SubSeq(s, 1, Len(s) - 1) ELSE s

---------------------------------------------------------------------------
(* The builder.  b is the CFGBuilder: [cfg, nextID, depth], with the       *)
(* history log carried along.  Every walker operator returns the builder   *)
(* it leaves behind together with the identifier it returns.               *)

\* a builder whose counter has already handed out identifier 1
NewCFGBuilder_Used == [cfg |-> NewCFG, nextID |-> 2, depth |-> <<>>, log |-> <<>>]

NewCFGBuilder == [cfg |-> NewCFG, nextID |-> 1, depth |-> <<>>, log |-> <<>>]

\* what a method of the builder leaves behind: the builder and the value it returns
R(b, id) == [b |-> b, id |-> id]

\* counters that stand still, or step by two
newID_NoIncrement(b) == R(b, b.nextID)

newID_SkipOne(b) == R([b EXCEPT !.nextID = @ + 2], b.nextID)

newID(b) == R([b EXCEPT !.nextID = @ + 1], b.nextID)

addNode(b, nodeType, codeSnippet, id) ==
    [b EXCEPT !.cfg = AddNode(@, nodeType, codeSnippet, id)]

addEdge(b, src, dst) == [b EXCEPT !.cfg = AddEdge(@, src, dst)]

\* a guarded call that never adds its edge
addEdgeFrom_Never(b, parentID, id) == b

\* the call pattern "if parentID != Terminal { b.cfg.AddEdge(parentID, id) }"
addEdgeFrom(b, parentID, id) ==
    IF parentID # Terminal THEN addEdge(b, parentID, id) ELSE b

pushDepth(b, typ, start, end) == [b EXCEPT !.depth = push(@, typ, start, end)]

popDepth(b) == [b EXCEPT !.depth = pop(@)]

Log(b, e) == [b EXCEPT !.log = Append(@, e)]

IsLoopFrame(f) == f.typ = NodeWhile \/ f.typ = NodeFor

RECURSIVE closestLoop(_, _)
\* index of the first loop frame at or below position i, 0 if none
closestLoop(s, i) ==
    IF i < 1 THEN 0
    ELSE IF IsLoopFrame(s[i]) THEN i
    ELSE closestLoop(s, i - 1)

\* lookups that answer with the outermost frame
loopStart_Outermost(b, i) == IF i # 0 THEN b.depth[1].start ELSE 1

loopEnd_Outermost(b, i) == IF i # 0 THEN b.depth[1].end ELSE b.nextID

\* the frame at position i of the stack, none when i = 0
\* a lookup without the default for an empty stack
loopStart_NoDefault(b, i) == IF i # 0 THEN b.depth[i].start ELSE Terminal

loopStart(b, i) == IF i # 0 THEN b.depth[i].start ELSE 1

\* a lookup whose default is one past the next identifier
loopEnd_BeyondNext(b, i) == IF i # 0 THEN b.depth[i].end ELSE b.nextID + 1

loopEnd(b, i) == IF i # 0 THEN b.depth[i].end ELSE b.nextID

findClosestLoopCondition(b) == loopStart(b, closestLoop(b.depth, Len(b.depth)))

findClosestLoopEnd(b) == loopEnd(b, closestLoop(b.depth, Len(b.depth)))

---------------------------------------------------------------------------
(* The lowering walker.  A case of CFGBuilder.visit is written as the       *)
(* sequence of its statements: [Begin(s0) EXCEPT !.s = e1, !.s = e2, ...].s *)
(* is the value of s after "s = e1; s = e2; ...", @ standing in each e for  *)
(* the value of s the statements before it left.  s holds the builder b     *)
(* and the local variables of the case; a visit leaves R(b, id).           *)

RECURSIVE visit(_, _, _)
RECURSIVE seqLoop(_, _, _, _)
RECURSIVE argLoop(_, _, _, _)

Begin(s0) == [s |-> s0]

\* "k := <call>", r being what the call leaves behind
Set(s, k, r) == [s EXCEPT !.b = r.b, ![k] = r.id]

\* "k := v"
Let(s, k, v) == [s EXCEPT ![k] = v]

\* a statement that changes the builder only
Do(s, b) == [s EXCEPT !.b = b]

\* "id := b.newID(); b.cfg.AddNode(nodeType, code, id);
\*  if parentID != Terminal { b.cfg.AddEdge(parentID, id) }", n being newID's result
emitAt(n, nodeType, codeSnippet, parentID) ==
    R(addEdgeFrom(addNode(n.b, nodeType, codeSnippet, n.id), parentID, n.id), n.id)

emit(b, nodeType, codeSnippet, parentID) == emitAt(newID(b), nodeType, codeSnippet, parentID)

\* "id := b.newID(); b.cfg.AddNode(nodeType, code, id); b.cfg.AddEdge(src, id)"
linkAt(n, nodeType, codeSnippet, src) ==
    R(addEdge(addNode(n.b, nodeType, codeSnippet, n.id), src, n.id), n.id)

link(b, nodeType, codeSnippet, src) == linkAt(newID(b), nodeType, codeSnippet, src)

addGenericNode(b, nodeType, node, parentID) == emit(b, nodeType, Content(node), parentID)

IsJump(node) == Type(node) \in {"break_statement", "continue_statement"}

\* history: the identifiers lo..b.nextID-1 were emitted for child i of node
\* against a Terminal tail
skipped(lo, b, node, i) ==
    IF b.nextID > lo
    THEN Log(b, [ev |-> "skipped", lo |-> lo, hi |-> b.nextID,
                 afterJump |-> \E j \in 0..(i - 1) : IsJump(Child(node, j))])
    ELSE b

\* One turn of the loop "for ; i < hi; i++ { if seq == Terminal { visit(child,
\* Terminal); continue }; res := visit(child, seq); seq = res }" of the
\* assignment, compound and default cases, r holding the builder and seq.
seqStep(r, node, i, hi) ==
    IF i >= hi THEN r
    ELSE IF r.id = Terminal
    THEN R(skipped(r.b.nextID, visit(r.b, Child(node, i), Terminal).b, node, i), Terminal)
    ELSE visit(r.b, Child(node, i), r.id)

\* The loop itself, four turns at a time.
seqLoop(r, node, i, hi) ==
    [Begin(r) EXCEPT
        !.s = seqStep(@, node, i, hi),
        !.s = seqStep(@, node, i + 1, hi),
        !.s = seqStep(@, node, i + 2, hi),
        !.s = seqStep(@, node, i + 3, hi),
        !.s = IF i + 4 < hi THEN seqLoop(@, node, i + 4, hi) ELSE @].s

\* history: an assignment_expression was lowered against the tail parentID;
\* the value took the identifiers vlo.., the target tlo.., the operator olo..
assignEvent(s, parentID) ==
    [ev |-> "assign", in |-> parentID, vlo |-> s.vlo, vhi |-> s.vhi, vtail |-> s.lNodeID,
     tlo |-> s.tlo, thi |-> s.thi, ttail |-> s.rNodeID, olo |-> s.olo, tail |-> s.seq]

\* an assignment that lowers its first child before its last
visitAssignment_TargetFirst(b, node, parentID) ==
    [Begin([b |-> b, lNodeID |-> 0, rNodeID |-> 0, seq |-> 0,
            vlo |-> 0, vhi |-> 0, tlo |-> 0, thi |-> 0, olo |-> 0])
     EXCEPT
        !.s = Let(@, "tlo", @.b.nextID),
        !.s = Set(@, "rNodeID", visit(@.b, Child(node, 0), parentID)),
        !.s = Let(@, "thi", @.b.nextID),
        !.s = Let(@, "vlo", @.b.nextID),
        !.s = Set(@, "lNodeID", visit(@.b, Child(node, ChildCount(node) - 1), @.rNodeID)),
        !.s = Let(@, "vhi", @.b.nextID),
        !.s = Let(@, "olo", @.b.nextID),
        !.s = Set(@, "seq", seqLoop(R(@.b, @.lNodeID), node, 1, ChildCount(node) - 1)),
        !.s = Do(@, Log(@.b, assignEvent(@, parentID))),
        !.s = R(@.b, @.seq)].s

visitAssignment(b, node, parentID) ==
    [Begin([b |-> b, lNodeID |-> 0, rNodeID |-> 0, seq |-> 0,
            vlo |-> 0, vhi |-> 0, tlo |-> 0, thi |-> 0, olo |-> 0])
     EXCEPT
        !.s = Let(@, "vlo", @.b.nextID),
        !.s = Set(@, "lNodeID", visit(@.b, Child(node, ChildCount(node) - 1), parentID)),
        !.s = Let(@, "vhi", @.b.nextID),
        !.s = Let(@, "tlo", @.b.nextID),
        !.s = Set(@, "rNodeID", visit(@.b, Child(node, 0), @.lNodeID)),
        !.s = Let(@, "thi", @.b.nextID),
        !.s = Let(@, "olo", @.b.nextID),
        !.s = Set(@, "seq", seqLoop(R(@.b, @.rNodeID), node, 1, ChildCount(node) - 1)),
        !.s = Do(@, Log(@.b, assignEvent(@, parentID))),
        !.s = R(@.b, @.seq)].s

visitBinary(b, node, parentID) ==
    [Begin(R(b, parentID)) EXCEPT
        !.s = visit(@.b, Child(node, 0), @.id),
        !.s = visit(@.b, Child(node, 2), @.id),
        !.s = visit(@.b, Child(node, 1), @.id)].s

\* "if node.ChildCount() == 3 && node.Child(1).Type() == "binary_expression"
\*  { node = node.Child(1) }"
conditionExpr(node) ==
    IF ChildCount(node) = 3 /\ Type(Child(node, 1)) = "binary_expression"
    THEN Child(node, 1) ELSE node

processCondition(b, node, parentID) ==
    IF node = Nil THEN R(b, parentID)
    ELSE [Begin(R(b, parentID)) EXCEPT
            !.s = visit(@.b, Child(conditionExpr(node), 0), @.id),
            !.s = visit(@.b, Child(conditionExpr(node), 2), @.id),
            !.s = visit(@.b, Child(conditionExpr(node), 1), @.id),
            !.s = link(@.b, NodeCondition, "Condition", @.id)].s

\* a false branch whose tail is Terminal when the if has no alternative
visitElse_AbsentIsTerminal(b, elseBlock, conditionID) ==
    IF elseBlock # Nil THEN visit(b, elseBlock, conditionID) ELSE R(b, Terminal)

\* the false branch of an if_statement
visitElse(b, elseBlock, conditionID) ==
    IF elseBlock # Nil THEN visit(b, elseBlock, conditionID) ELSE R(b, conditionID)

\* history: an if_statement was lowered
ifEvent(s, hasElse) ==
    [ev |-> "if", id |-> s.ifID, cond |-> s.conditionID,
     tlo |-> s.tlo, thi |-> s.thi, ttail |-> s.trueBranchID, hasElse |-> hasElse,
     fhi |-> s.ifEndID, ftail |-> s.falseBranchID, ifEnd |-> s.ifEndID,
     tail |-> s.tail, joinTrue |-> s.joinTrue, joinFalse |-> s.joinFalse]

visitIf(b, node, parentID) ==
    [Begin([b |-> b, ifID |-> 0, conditionID |-> 0, trueBranchID |-> 0,
            falseBranchID |-> 0, ifEndID |-> 0, tlo |-> 0, thi |-> 0,
            tail |-> 0, joinTrue |-> <<>>, joinFalse |-> <<>>])
     EXCEPT
        !.s = Set(@, "ifID", emit(@.b, NodeIf, NodeIf, parentID)),
        !.s = Set(@, "conditionID",
                  processCondition(@.b, ChildByFieldName(node, "condition"), @.ifID)),
        !.s = Let(@, "tlo", @.b.nextID),
        !.s = Set(@, "trueBranchID",
                  visit(@.b, ChildByFieldName(node, "body"), @.conditionID)),
        !.s = Let(@, "thi", @.b.nextID),
        !.s = Set(@, "falseBranchID",
                  visitElse(@.b, ChildByFieldName(node, "alternative"), @.conditionID)),
        !.s = Set(@, "ifEndID", newID(@.b)),
        !.s = Do(@, addNode(@.b, NodeIfEnd, NodeIfEnd, @.ifEndID)),
        !.s = Do(@, addEdgeFrom(@.b, @.trueBranchID, @.ifEndID)),
        !.s = Let(@, "joinTrue", Succ(@.b.cfg, @.trueBranchID)),
        !.s = Let(@, "joinFalse", Succ(@.b.cfg, @.falseBranchID)),
        !.s = Do(@, addEdgeFrom(@.b, @.falseBranchID, @.ifEndID)),
        !.s = Let(@, "tail", IF @.trueBranchID = Terminal /\ @.falseBranchID = Terminal
                             THEN Terminal ELSE @.ifEndID),
        !.s = Do(@, Log(@.b, ifEvent(@, ChildByFieldName(node, "alternative") # Nil))),
        !.s = R(@.b, @.tail)].s

visitEcho(b, node, parentID) ==
    [Begin(R(b, parentID)) EXCEPT
        !.s = emit(@.b, NodeEcho, "Echo", @.id),
        !.s = IF Child(node, 1) # Nil THEN visit(@.b, Child(node, 1), @.id) ELSE @].s

\* "res := b.visit(argNode, argumentID); if res != Terminal { seq = res }"
argSeq(res, seq) == R(res.b, IF res.id # Terminal THEN res.id ELSE seq)

\* one argument: the Argument node and the visit of the child under it
visitArgument(b, argNode, argsID) ==
    [Begin([b |-> b, argumentID |-> 0, res |-> 0]) EXCEPT
        !.s = Set(@, "argumentID", link(@.b, NodeArgument, NodeArgument, argsID)),
        !.s = Set(@, "res", visit(@.b, argNode, @.argumentID)),
        !.s = Do(@, Log(@.b, [ev |-> "argument", list |-> argsID, id |-> @.argumentID,
                              hi |-> @.b.nextID, tail |-> @.res])),
        !.s = R(@.b, @.res)].s

\* One turn of the loop over the children of the argument list, r holding the
\* builder and seq.
argStep(r, argumentsNode, i, argsID) ==
    IF i >= ChildCount(argumentsNode) THEN r
    ELSE IF Type(Child(argumentsNode, i)) # "(" /\ Type(Child(argumentsNode, i)) # ")"
    THEN argSeq(visitArgument(r.b, Child(argumentsNode, i), argsID), r.id)
    ELSE r

\* The loop itself, four turns at a time.
argLoop(r, argumentsNode, i, argsID) ==
    [Begin(r) EXCEPT
        !.s = argStep(@, argumentsNode, i, argsID),
        !.s = argStep(@, argumentsNode, i + 1, argsID),
        !.s = argStep(@, argumentsNode, i + 2, argsID),
        !.s = argStep(@, argumentsNode, i + 3, argsID),
        !.s = IF i + 4 < ChildCount(argumentsNode)
              THEN argLoop(@, argumentsNode, i + 4, argsID) ELSE @].s

\* the children of the argument list that are not parentheses
nonParenthesis(argumentsNode) ==
    {i \in 0..(ChildCount(argumentsNode) - 1) :
        Type(Child(argumentsNode, i)) # "(" /\ Type(Child(argumentsNode, i)) # ")"}

\* history: a function_call_expression with an argument list was lowered
callEvent(s, argumentsNode) ==
    [ev |-> "call", id |-> s.funcCallID, name |-> s.funcNameID, args |-> s.argsID,
     argc |-> Cardinality(nonParenthesis(argumentsNode)), seq |-> s.seq,
     callBegin |-> s.callBeginID, callEnd |-> s.callEndID, retValue |-> s.retValueID]

\* function_call_expression with an argument list, from "argsID := b.newID()" on
visitArguments(s, argumentsNode, funcName) ==
    [Begin(s) EXCEPT
        !.s = Set(@, "argsID", link(@.b, NodeArgumentList, NodeArgumentList, @.funcNameID)),
        !.s = Set(@, "seq", argLoop(R(@.b, @.argsID), argumentsNode, 0, @.argsID)),
        !.s = Set(@, "callBeginID", link(@.b, NodeCallBegin, funcName, @.seq)),
        !.s = Set(@, "callEndID", link(@.b, NodeCallEnd, funcName, @.callBeginID)),
        !.s = Set(@, "retValueID", link(@.b, NodeRetValue, NodeRetValue, @.callEndID)),
        !.s = Do(@, Log(@.b, callEvent(@, argumentsNode))),
        !.s = R(@.b, @.retValueID)].s

\* history: the tail a function_call_expression returned
returnEvent(funcCallID, r) == [ev |-> "return", id |-> funcCallID, tail |-> r.id]

visitFunctionCall(b, node, parentID) ==
    [Begin([b |-> b, funcCallID |-> 0, funcNameID |-> 0, argsID |-> 0, seq |-> 0,
            callBeginID |-> 0, callEndID |-> 0, retValueID |-> 0])
     EXCEPT
        !.s = Set(@, "funcCallID", emit(@.b, NodeFunctionCall, NodeFunctionCall, parentID)),
        !.s = Set(@, "funcNameID", link(@.b, NodeId, Content(Child(node, 0)), @.funcCallID)),
        !.s = Set(@, "retValueID",
                  IF ChildByFieldName(node, "arguments") # Nil
                  THEN visitArguments(@, ChildByFieldName(node, "arguments"),
                                      Content(Child(node, 0)))
                  ELSE R(@.b, @.funcCallID)),
        !.s = Do(@, Log(@.b, returnEvent(@.funcCallID, R(@.b, @.retValueID)))),
        !.s = R(@.b, @.retValueID)].s

\* history: a while_statement was lowered
whileEvent(s) ==
    [ev |-> "while", id |-> s.whileID, cond |-> s.conditionID,
     whileEnd |-> s.whileEndID, blo |-> s.blo, bhi |-> s.bhi,
     btail |-> s.bodyID, depthBody |-> s.depthBody, depthIn |-> s.depthIn,
     depthOut |-> s.b.depth, keysBody |-> s.keysBody,
     keysOut |-> DOMAIN s.b.cfg.Nodes, tail |-> s.tail]

\* the locals of the while_statement case
whileLocals(b) ==
    [b |-> b, whileID |-> 0, conditionID |-> 0, whileEndID |-> 0, bodyID |-> 0,
     blo |-> 0, bhi |-> 0, tail |-> 0, depthIn |-> b.depth, depthBody |-> <<>>,
     keysBody |-> {}]

\* a while that stores the edge Condition -> WhileEnd before it lowers the body
visitWhile_EndEdgeFirst(b, node, parentID) ==
    [Begin(whileLocals(b)) EXCEPT
        !.s = Set(@, "whileID", emit(@.b, NodeWhile, NodeWhile, parentID)),
        !.s = Set(@, "conditionID",
                  processCondition(@.b, ChildByFieldName(node, "condition"), @.whileID)),
        !.s = Set(@, "whileEndID", newID(@.b)),
        !.s = Do(@, addEdge(@.b, @.conditionID, @.whileEndID)),
        !.s = Do(@, pushDepth(@.b, NodeWhile, @.whileID, @.whileEndID)),
        !.s = Let(@, "blo", @.b.nextID),
        !.s = Set(@, "bodyID", visit(@.b, ChildByFieldName(node, "body"), @.conditionID)),
        !.s = Let(@, "bhi", @.b.nextID),
        !.s = Let(@, "depthBody", @.b.depth),
        !.s = Let(@, "keysBody", DOMAIN @.b.cfg.Nodes),
        !.s = Do(@, addEdgeFrom(@.b, @.bodyID, @.whileID)),
        !.s = Do(@, addNode(@.b, NodeWhileEnd, NodeWhileEnd, @.whileEndID)),
        !.s = Do(@, popDepth(@.b)),
        !.s = Let(@, "tail", @.whileEndID),
        !.s = Do(@, Log(@.b, whileEvent(@))),
        !.s = R(@.b, @.tail)].s

\* a while that stores the WhileEnd node when it allocates its identifier
visitWhile_EndNodeFirst(b, node, parentID) ==
    [Begin(whileLocals(b)) EXCEPT
        !.s = Set(@, "whileID", emit(@.b, NodeWhile, NodeWhile, parentID)),
        !.s = Set(@, "conditionID",
                  processCondition(@.b, ChildByFieldName(node, "condition"), @.whileID)),
        !.s = Set(@, "whileEndID", newID(@.b)),
        !.s = Do(@, addNode(@.b, NodeWhileEnd, NodeWhileEnd, @.whileEndID)),
        !.s = Do(@, pushDepth(@.b, NodeWhile, @.whileID, @.whileEndID)),
        !.s = Let(@, "blo", @.b.nextID),
        !.s = Set(@, "bodyID", visit(@.b, ChildByFieldName(node, "body"), @.conditionID)),
        !.s = Let(@, "bhi", @.b.nextID),
        !.s = Let(@, "depthBody", @.b.depth),
        !.s = Let(@, "keysBody", DOMAIN @.b.cfg.Nodes),
        !.s = Do(@, addEdgeFrom(@.b, @.bodyID, @.whileID)),
        !.s = Do(@, addEdge(@.b, @.conditionID, @.whileEndID)),
        !.s = Do(@, popDepth(@.b)),
        !.s = Let(@, "tail", @.whileEndID),
        !.s = Do(@, Log(@.b, whileEvent(@))),
        !.s = R(@.b, @.tail)].s

visitWhile(b, node, parentID) ==
    [Begin(whileLocals(b)) EXCEPT
        !.s = Set(@, "whileID", emit(@.b, NodeWhile, NodeWhile, parentID)),
        !.s = Set(@, "conditionID",
                  processCondition(@.b, ChildByFieldName(node, "condition"), @.whileID)),
        !.s = Set(@, "whileEndID", newID(@.b)),
        !.s = Do(@, pushDepth(@.b, NodeWhile, @.whileID, @.whileEndID)),
        !.s = Let(@, "blo", @.b.nextID),
        !.s = Set(@, "bodyID", visit(@.b, ChildByFieldName(node, "body"), @.conditionID)),
        !.s = Let(@, "bhi", @.b.nextID),
        !.s = Let(@, "depthBody", @.b.depth),
        !.s = Let(@, "keysBody", DOMAIN @.b.cfg.Nodes),
        !.s = Do(@, addEdgeFrom(@.b, @.bodyID, @.whileID)),
        !.s = Do(@, addNode(@.b, NodeWhileEnd, NodeWhileEnd, @.whileEndID)),
        !.s = Do(@, addEdge(@.b, @.conditionID, @.whileEndID)),
        !.s = Do(@, popDepth(@.b)),
        !.s = Let(@, "tail", @.whileEndID),
        !.s = Do(@, Log(@.b, whileEvent(@))),
        !.s = R(@.b, @.tail)].s

\* history: a break or a continue was lowered
jumpEvent(kind, s, target) ==
    [ev |-> kind, id |-> s.id, target |-> target,
     stack |-> s.b.depth, keys |-> DOMAIN s.b.cfg.Nodes]

visitBreak(b, parentID) ==
    [Begin(R(b, parentID)) EXCEPT
        !.s = emit(@.b, NodeBreak, NodeBreak, parentID),
        !.s = Do(@, Log(@.b, jumpEvent("break", @, findClosestLoopEnd(@.b)))),
        !.s = Do(@, addEdge(@.b, @.id, findClosestLoopEnd(@.b))),
        !.s = R(@.b, Terminal)].s

\* a continue that hands its own node on as the tail
visitContinue_FallsThrough(b, parentID) ==
    [Begin(R(b, parentID)) EXCEPT
        !.s = emit(@.b, NodeContinue, NodeContinue, parentID),
        !.s = Do(@, Log(@.b, jumpEvent("continue", @, findClosestLoopCondition(@.b)))),
        !.s = Do(@, addEdge(@.b, @.id, findClosestLoopCondition(@.b)))].s

visitContinue(b, parentID) ==
    [Begin(R(b, parentID)) EXCEPT
        !.s = emit(@.b, NodeContinue, NodeContinue, parentID),
        !.s = Do(@, Log(@.b, jumpEvent("continue", @, findClosestLoopCondition(@.b)))),
        !.s = Do(@, addEdge(@.b, @.id, findClosestLoopCondition(@.b))),
        !.s = R(@.b, Terminal)].s

visit(b, node, parentID) ==
    CASE node = Nil -> R(b, parentID)
      [] Type(node) = "php_tag" -> addGenericNode(b, NodeHtml, node, parentID)
      [] Type(node) = "assignment_expression" -> visitAssignment(b, node, parentID)
      [] Type(node) = "binary_expression" -> visitBinary(b, node, parentID)
      [] Type(node) \in {"=", "+=", "-=", "*=", "/="} ->
            addGenericNode(b, NodeBinOp, node, parentID)
      [] Type(node) \in {"==", "!=", "<", "<=", ">", ">="} ->
            addGenericNode(b, NodeRelOp, node, parentID)
      [] Type(node) \in {"+", "-", "*", "/"} ->
            addGenericNode(b, NodeBinOp, node, parentID)
      [] Type(node) = "if_statement" -> visitIf(b, node, parentID)
      [] Type(node) = "echo_statement" -> visitEcho(b, node, parentID)
      [] Type(node) = "function_call_expression" -> visitFunctionCall(b, node, parentID)
      [] Type(node) = "while_statement" -> visitWhile(b, node, parentID)
      [] Type(node) = "break_statement" -> visitBreak(b, parentID)
      [] Type(node) = "continue_statement" -> visitContinue(b, parentID)
      [] Type(node) = "compound_statement" ->
            seqLoop(R(b, parentID), node, 1, ChildCount(node) - 1)
      [] Type(node) = "name" -> addGenericNode(b, NodeId, node, parentID)
      [] Type(node) = "string_content" -> addGenericNode(b, NodeString, node, parentID)
      [] Type(node) = "variable_name" -> addGenericNode(b, NodeVariable, node, parentID)
      [] Type(node) = "integer" -> addGenericNode(b, NodeInteger, node, parentID)
      [] Type(node) = "string" -> addGenericNode(b, NodeStringLiteral, node, parentID)
      [] OTHER -> seqLoop(R(b, parentID), node, 0, ChildCount(node))

\* "if lastNodeID != entryID && lastNodeID != Terminal { AddEdge(lastNodeID, exitID) }
\*  else { AddEdge(entryID, exitID) }"
\* a driver that always links the tail of the root to Exit
exitEdge_FromTail(b, entryID, lastNodeID, exitID) == addEdge(b, lastNodeID, exitID)

exitEdge(b, entryID, lastNodeID, exitID) ==
    IF lastNodeID # entryID /\ lastNodeID # Terminal
    THEN addEdge(b, lastNodeID, exitID)
    ELSE addEdge(b, entryID, exitID)

\* BuildCFG after a successful parse: the builder it leaves behind
buildGraph(b, root) ==
    [Begin([b |-> b, entryID |-> 0, lastNodeID |-> 0, exitID |-> 0, pre |-> NewCFG])
     EXCEPT
        !.s = Set(@, "entryID", newID(@.b)),
        !.s = Do(@, addNode(@.b, NodeEntry, NodeEntry, @.entryID)),
        !.s = Set(@, "lastNodeID", visit(@.b, root, @.entryID)),
        !.s = Set(@, "exitID", newID(@.b)),
        !.s = Do(@, addNode(@.b, NodeExit, NodeExit, @.exitID)),
        !.s = Let(@, "pre", @.b.cfg),
        !.s = Do(@, exitEdge(@.b, @.entryID, @.lastNodeID, @.exitID)),
        !.s = Do(@, Log(@.b, [ev |-> "build", entry |-> @.entryID, last |-> @.lastNodeID,
                              exit |-> @.exitID, pre |-> @.pre]))].s.b

---------------------------------------------------------------------------
(* The reachability scan.                                                  *)

RECURSIVE enqueue(_, _, _, _)
\* "for _, succ := range cfg.Edges[id] { if !visited[succ] { queue = append(queue, succ) } }"
enqueue(queue, succs, i, visited) ==
    IF i > Len(succs) THEN queue
    ELSE enqueue(IF succs[i] \notin visited THEN Append(queue, succs[i]) ELSE queue,
                 succs, i + 1, visited)

\* a visit that leaves the successors of id out of the queue
mark_NoSuccessors(g, q, id) ==
    [queue |-> Tail(q.queue), visited |-> q.visited \cup {id}]

\* "visited[id] = true" and the loop over the successors of id
mark(g, q, id) ==
    [queue |-> enqueue(Tail(q.queue), Succ(g, id), 1, q.visited \cup {id}),
     visited |-> q.visited \cup {id}]

\* One turn of the loop "for len(queue) > 0 { id := queue[0]; queue = queue[1:];
\* if visited[id] { continue }; ... }", q holding queue and visited.
scanStep(g, q) ==
    IF Len(q.queue) = 0 THEN q
    ELSE IF Head(q.queue) \in q.visited THEN [q EXCEPT !.queue = Tail(@)]
    ELSE mark(g, q, Head(q.queue))

RECURSIVE scan(_, _)
\* The loop itself, eight turns at a time.
scan(g, q) ==
    [Begin(q) EXCEPT
        !.s = scanStep(g, @), !.s = scanStep(g, @), !.s = scanStep(g, @),
        !.s = scanStep(g, @), !.s = scanStep(g, @), !.s = scanStep(g, @),
        !.s = scanStep(g, @), !.s = scanStep(g, @),
        !.s = IF Len(@.queue) > 0 THEN scan(g, @) ELSE @].s

\* the first loop of DetectDeadCode: the identifiers it marks visited
visitedFromEntry(g) == scan(g, [queue |-> <<1>>, visited |-> {}]).visited

\* the elements of a finite set of integers in ascending order
ascending(S) ==
    [i \in 1..Cardinality(S) |-> CHOOSE x \in S : Cardinality({y \in S : y <= x}) = i]

descending(S) ==
    [i \in 1..Cardinality(S) |-> CHOOSE x \in S : Cardinality({y \in S : y >= x}) = i]

\* "for id := range cfg.Nodes": Go leaves the iteration order of a map
\* unspecified; two orders stand for it here, the ascending and the descending.
rangeOrder(S, up) == IF up THEN ascending(S) ELSE descending(S)

\* a loop that stops at the first dead node it meets
collectDead_FirstOnly(order, visited) ==
    SelectSeq(order, LAMBDA id : id \notin visited
                                 /\ \A i \in DOMAIN order :
                                       order[i] \notin visited => i >= CHOOSE j \in DOMAIN order : order[j] = id)

\* "for id := range cfg.Nodes { if !visited[id] { dead = append(dead, id) } }"
collectDead(order, visited) == SelectSeq(order, LAMBDA id : id \notin visited)

\* DetectDeadCode, the map being ranged over in the given order
detectDeadCode(g, up) == collectDead(rangeOrder(DOMAIN g.Nodes, up), visitedFromEntry(g))

---------------------------------------------------------------------------
(* The input programs: syntax trees as the PHP grammar of tree-sitter      *)
(* shapes them.                                                            *)

Node(type, text, kids) == [type |-> type, text |-> text, kids |-> kids, fields |-> NoFields]

Tok(t) == Node(t, t, <<>>)

Var(name) == Node("variable_name", name, <<Tok("$"), Node("name", name, <<>>)>>)

IntLit(text) == Node("integer", text, <<>>)

\* a single-quoted string
StrLit(text) == Node("string", text, <<Tok("'"), Node("string_content", text, <<>>), Tok("'")>>)

Bin(l, op, r) == Node("binary_expression", "", <<l, Tok(op), r>>)

Paren(e) == Node("parenthesized_expression", "", <<Tok("("), e, Tok(")")>>)

Assign(l, r) == Node("assignment_expression", "", <<l, Tok("="), r>>)

ExprStmt(e) == Node("expression_statement", "", <<e, Tok(";")>>)

\* echo "text";
EchoStmt(text) ==
    Node("echo_statement", "",
         <<Tok("echo"),
           Node("encapsed_string", text,
                <<Tok("\""), Node("string_content", text, <<>>), Tok("\"")>>),
           Tok(";")>>)

BreakStmt == Node("break_statement", "break;", <<Tok("break"), Tok(";")>>)

ContinueStmt == Node("continue_statement", "continue;", <<Tok("continue"), Tok(";")>>)

Compound(stmts) == Node("compound_statement", "", <<Tok("{")>> \o stmts \o <<Tok("}")>>)

ElseClause(body) == Node("else_clause", "", <<Tok("else"), body>>)

IfStmt(cond, body) ==
    [type |-> "if_statement", text |-> "", kids |-> <<Tok("if"), Paren(cond), body>>,
     fields |-> [NoFields EXCEPT !.condition = 2, !.body = 3]]

IfElseStmt(cond, body, alt) ==
    [type |-> "if_statement", text |-> "",
     kids |-> <<Tok("if"), Paren(cond), body, ElseClause(alt)>>,
     fields |-> [NoFields EXCEPT !.condition = 2, !.body = 3, !.alternative = 4]]

WhileStmt(cond, body) ==
    [type |-> "while_statement", text |-> "", kids |-> <<Tok("while"), Paren(cond), body>>,
     fields |-> [NoFields EXCEPT !.condition = 2, !.body = 3]]

\* function () { ... }
Closure(body) ==
    Node("anonymous_function_creation_expression", "",
         <<Tok("function"), Node("formal_parameters", "", <<Tok("("), Tok(")")>>), body>>)

\* name(arg, ...): the argument list holds the parentheses, the arguments and
\* the commas between them
RECURSIVE commaSeparated(_)
commaSeparated(args) ==
    IF Len(args) = 0 THEN <<>>
    ELSE IF Len(args) = 1 THEN <<Node("argument", "", <<args[1]>>)>>
    ELSE <<Node("argument", "", <<args[1]>>), Tok(",")>> \o commaSeparated(Tail(args))

Call(name, args) ==
    [type |-> "function_call_expression", text |-> "",
     kids |-> <<Node("name", name, <<>>),
                Node("arguments", "", <<Tok("(")>> \o commaSeparated(args) \o <<Tok(")")>>)>>,
     fields |-> [NoFields EXCEPT !.arguments = 2]]

Program(stmts) == Node("program", "", <<Node("php_tag", "<?php", <<>>)>> \o stmts)

---------------------------------------------------------------------------
(* Test programs of cfg_test.go.                                           *)

CondLt(v, n) == Bin(Var(v), "<", IntLit(n))

\* <?php $a = 10; if ($a < 5) { echo "True"; } else { echo "False"; }
IfElseProgram ==
    Program(<<ExprStmt(Assign(Var("$a"), IntLit("10"))),
              IfElseStmt(CondLt("$a", "5"),
                         Compound(<<EchoStmt("True")>>),
                         Compound(<<EchoStmt("False")>>))>>)

\* <?php mysql_query('SELECT *');
CallProgram == Program(<<ExprStmt(Call("mysql_query", <<StrLit("SELECT *")>>))>>)

\* <?php $i = 0; while ($i < 10) { $i = $i + 1; if ($i == 5) break; continue;
\*       echo "Dead"; } echo "Done";
WhileProgram ==
    Program(<<ExprStmt(Assign(Var("$i"), IntLit("0"))),
              WhileStmt(CondLt("$i", "10"),
                        Compound(<<ExprStmt(Assign(Var("$i"),
                                                   Bin(Var("$i"), "+", IntLit("1")))),
                                   IfStmt(Bin(Var("$i"), "==", IntLit("5")), BreakStmt),
                                   ContinueStmt,
                                   EchoStmt("Dead")>>)),
              EchoStmt("Done")>>)

\* <?php while ($a < 1) { while ($b < 1) { break; } break; }
NestedProgram ==
    Program(<<WhileStmt(CondLt("$a", "1"),
                        Compound(<<WhileStmt(CondLt("$b", "1"), Compound(<<BreakStmt>>)),
                                   BreakStmt>>))>>)

---------------------------------------------------------------------------
(* The input programs: every program of at most MaxStmts statements built  *)
(* from break, continue, echo, a function call, if, if/else, while and the *)
(* assignment of a closure, all bodies being blocks and the conditions of  *)
(* one program all having the same shape; and the programs of the tests    *)
(* and of the scenarios of the specification.                              *)

\* condition shapes: "$a < 5" and "$a"
Conds == {CondLt("$a", "5"), Var("$a")}

RECURSIVE Blocks(_, _)
\* the statements that hold n statements in all, themselves included
Stmts(c, n) ==
    IF n < 1 THEN {}
    ELSE (IF n = 1
          THEN {BreakStmt, ContinueStmt, EchoStmt("x"),
                ExprStmt(Call("f", <<StrLit("x")>>))}
          ELSE {})
         \cup {IfStmt(c, Compound(blk)) : blk \in Blocks(c, n - 1)}
         \cup {WhileStmt(c, Compound(blk)) : blk \in Blocks(c, n - 1)}
         \cup {ExprStmt(Assign(Var("$f"), Closure(Compound(blk)))) : blk \in Blocks(c, n - 1)}
         \cup UNION {{IfElseStmt(c, Compound(b1), Compound(b2)) :
                        b1 \in Blocks(c, k), b2 \in Blocks(c, n - 1 - k)} : k \in 0..(n - 1)}

\* the statement sequences that hold n statements in all
Blocks(c, n) ==
    IF n = 0 THEN {<<>>}
    ELSE UNION {{<<s>> \o rest : s \in Stmts(c, k), rest \in Blocks(c, n - k)} : k \in 1..n}

Family == UNION {{Program(blk) : blk \in Blocks(c, n)} : c \in Conds, n \in 0..MaxStmts}

\* calls with no argument, with two, and with a closure as last argument
CallPrograms ==
    {Program(<<ExprStmt(Call("f", args))>>) :
        args \in {<<>>,
                  <<StrLit("x"), StrLit("y")>>,
                  <<Closure(Compound(<<ContinueStmt>>))>>,
                  <<StrLit("x"), Closure(Compound(<<ContinueStmt>>))>>,
                  <<Closure(Compound(<<BreakStmt>>)), StrLit("y")>>}}

Programs ==
    Family \cup CallPrograms \cup {IfElseProgram, CallProgram, WhileProgram, NestedProgram}

---------------------------------------------------------------------------
(* The state machine: one builder, used through its exported operations.   *)

NoCall == [op |-> "none", src |-> 0, dst |-> 0]

Init ==
    /\ cfg = NewCFG
    /\ nextID = 1
    /\ depth = <<>>
    /\ source = Nil
    /\ ret = "none"
    /\ dead = <<>>
    /\ scans = 0
    /\ lastCall = NoCall
    /\ log = <<>>

\* BuildCFG on a source the parser accepts, root being its syntax tree
BuildCFG ==
    /\ ret = "none"
    /\ \E root \in Programs :
          /\ \E b \in {buildGraph([cfg |-> cfg, nextID |-> nextID,
                                    depth |-> depth, log |-> log], root)} :
                /\ cfg' = b.cfg
                /\ nextID' = b.nextID
                /\ depth' = b.depth
                /\ log' = b.log
          /\ source' = root
    /\ ret' = "ok"
    /\ UNCHANGED <<dead, scans, lastCall>>

\* a BuildCFG that creates Entry before it looks at the parser's error
BuildCFGParseError_AfterEntry ==
    /\ ret = "none"
    /\ ret' = "error"
    /\ cfg' = AddNode(cfg, NodeEntry, NodeEntry, nextID)
    /\ nextID' = nextID + 1
    /\ UNCHANGED <<depth, source, dead, scans, lastCall, log>>

\* BuildCFG when ParseCtx returns an error
BuildCFGParseError ==
    /\ ret = "none"
    /\ ret' = "error"
    /\ UNCHANGED <<cfg, nextID, depth, source, dead, scans, lastCall, log>>

\* DetectDeadCode on the CFG BuildCFG returned
DetectDeadCode ==
    /\ ret = "ok"
    /\ scans < MaxScans
    /\ \E up \in BOOLEAN : dead' = detectDeadCode(cfg, up)
    /\ scans' = scans + 1
    /\ UNCHANGED <<cfg, nextID, depth, source, ret, lastCall, log>>

Next == BuildCFG \/ BuildCFGParseError \/ DetectDeadCode

Spec == Init /\ [][Next]_vars

---------------------------------------------------------------------------
(* One builder used for several builds: BuildCFG called again on the       *)
(* CFGBuilder that has already returned a graph (or an error).             *)

\* the programs given to a builder that is used again
ReusePrograms ==
    UNION {{Program(blk) : blk \in Blocks(c, n)} : c \in Conds, n \in 0..MaxReuseStmts}
        \cup {IfElseProgram, WhileProgram}

\* the builds the builder has completed, in order
BuildSeq == SelectSeq(log, LAMBDA e : e.ev = "build")

\* BuildCFG run on the builder start, whose history is the one recorded
BuildOn(start) ==
    /\ Len(BuildSeq) < MaxBuilds
    /\ \E root \in ReusePrograms :
          /\ \E b \in {buildGraph(start, root)} :
                /\ cfg' = b.cfg
                /\ nextID' = b.nextID
                /\ depth' = b.depth
                /\ log' = b.log
          /\ source' = root
    /\ ret' = "ok"
    /\ scans' = 0
    /\ UNCHANGED <<dead, lastCall>>

\* a BuildCFG that starts from a fresh graph and identifier 1
BuildCFGAgain_Reset == BuildOn([NewCFGBuilder EXCEPT !.log = log])

\* BuildCFG on the builder as the previous calls left it: "b.source = source"
\* is the only field it sets before the walk
BuildCFGAgain ==
    BuildOn([cfg |-> cfg, nextID |-> nextID, depth |-> depth, log |-> log])

NextReuse == BuildCFGAgain \/ BuildCFGParseError \/ DetectDeadCode

SpecReuse == Init /\ [][NextReuse]_vars

---------------------------------------------------------------------------
(* The graph store on its own: a client that holds a CFG and calls AddNode *)
(* and AddEdge on it in any order with any identifiers, Terminal included. *)

StoreIds == {Terminal} \cup (1..MaxStoreId)

\* cfg.AddNode(NodeEcho, "x", id)
StoreAddNode ==
    /\ \E id \in StoreIds :
          /\ cfg' = AddNode(cfg, NodeEcho, "x", id)
          /\ lastCall' = [op |-> "AddNode", src |-> id, dst |-> id]
    /\ UNCHANGED <<nextID, depth, source, ret, dead, scans, log>>

\* cfg.AddEdge(src, dst)
StoreAddEdge ==
    /\ \E src \in StoreIds, dst \in StoreIds :
          /\ Len(Succ(AddEdge(cfg, src, dst), src)) <= MaxSucc
          /\ cfg' = AddEdge(cfg, src, dst)
          /\ lastCall' = [op |-> "AddEdge", src |-> src, dst |-> dst]
    /\ UNCHANGED <<nextID, depth, source, ret, dead, scans, log>>

StoreNext == StoreAddNode \/ StoreAddEdge

SpecStore == Init /\ [][StoreNext]_vars

---------------------------------------------------------------------------
(* Properties of the graph store.                                          *)

\* the stored edges of g, as <<source, destination>> pairs
EdgePairs(g) ==
    UNION {{<<k, g.Edges[k][i]>> : i \in 1..Len(g.Edges[k])} : k \in DOMAIN g.Edges}

NoSelfLoop == \A e \in EdgePairs(cfg) : e[1] # e[2]

SelfEdgeCallIsNoOp ==
    (lastCall'.op = "AddEdge" /\ lastCall'.src = lastCall'.dst) => cfg' = cfg

\* C8: in every state of the graph store no stored edge has its source equal
\* to its destination, and a call AddEdge(x, x) leaves Nodes and Edges as
\* they were.
C8_NoSelfLoopStored == []NoSelfLoop /\ [][SelfEdgeCallIsNoOp]_vars

\* a call AddEdge(x, x) on a store that already holds nodes and edges, x
\* being the source of a stored edge
C8_Witness ==
    /\ lastCall.op = "AddEdge"
    /\ lastCall.src = lastCall.dst
    /\ lastCall.src \in DOMAIN cfg.Edges
    /\ lastCall.src \in DOMAIN cfg.Nodes

NoTerminalSource == Succ(cfg, Terminal) = <<>>

TerminalEdgeCallIsNoOp ==
    (lastCall'.op = "AddEdge" /\ lastCall'.src = Terminal) => cfg' = cfg

\* C9: in every state of the graph store Terminal is never a key of Edges
\* with a non-empty successor list, and a call AddEdge(Terminal, d) leaves
\* Nodes and Edges as they were.
C9_NoEdgeFromTerminal == []NoTerminalSource /\ [][TerminalEdgeCallIsNoOp]_vars

\* a call AddEdge(Terminal, d), d being a stored node that has edges of its
\* own
C9_Witness ==
    /\ lastCall.op = "AddEdge"
    /\ lastCall.src = Terminal
    /\ lastCall.dst \in DOMAIN cfg.Nodes
    /\ lastCall.dst \in DOMAIN cfg.Edges

---------------------------------------------------------------------------
(* Properties of the built CFG.                                            *)

\* BuildCFG has returned a CFG
Built == ret = "ok"

\* the identifiers of the nodes of kind t
NodesOfType(g, t) == {id \in DOMAIN g.Nodes : g.Nodes[id].Type = t}

\* one step along the stored edges from the identifiers of S
Post(g, S) == {e[2] : e \in {p \in EdgePairs(g) : p[1] \in S}}

RECURSIVE closure(_, _)
closure(g, S) == IF Post(g, S) \subseteq S THEN S ELSE closure(g, S \cup Post(g, S))

\* what is reachable from Entry (identifier 1) by following stored edges
Reachable(g) == closure(g, {1})

\* C1: in every CFG BuildCFG returns, the Exit node is reachable from the
\* Entry node by following stored edges.
C1_ExitReachable == Built => NodesOfType(cfg, NodeExit) \subseteq Reachable(cfg)

\* the events of kind k in the history of the walk
Events(k) == {log[i] : i \in {j \in DOMAIN log : log[j].ev = k}}

\* C2: every node emitted for a statement that follows an unconditional
\* break or continue in the same block is unreachable from Entry in the
\* final CFG.
C2_AfterJumpUnreachable ==
    Built => \A e \in Events("skipped") :
                e.afterJump => \A id \in e.lo..(e.hi - 1) : id \notin Reachable(cfg)

\* the identifiers DetectDeadCode returned
DeadSet == {dead[i] : i \in DOMAIN dead}

\* C3: DetectDeadCode returns exactly the keys of Nodes that are not
\* reachable from identifier 1 along Edges, each of them once.
C3_DeadIsExactlyUnreachable ==
    scans > 0 =>
        /\ \A i, j \in DOMAIN dead : i # j => dead[i] # dead[j]
        /\ DeadSet = DOMAIN cfg.Nodes \ Reachable(cfg)

\* a scan, ranging over the map from the highest key down, of a CFG that
\* has dead nodes and live nodes other than Entry
C3_Witness ==
    /\ scans > 0
    /\ Len(dead) >= 2
    /\ dead[1] > dead[2]
    /\ Cardinality(Reachable(cfg)) >= 3

\* C4: at every Condition node of every built CFG the stored successor list
\* has length exactly 2.
C4_ConditionHasTwoSuccessors ==
    Built => \A id \in NodesOfType(cfg, NodeCondition) : Len(Succ(cfg, id)) = 2

\* a CFG with the Condition of an if without else whose body is empty, and
\* the Condition of a while whose body ends in a break or a continue
C4_Witness ==
    /\ Built
    /\ \E e \in Events("if") : ~e.hasElse /\ e.ttail = e.cond
    /\ \E w \in Events("while") : w.btail = Terminal

\* the head of the true branch of a lowered if: the first node emitted for
\* the body, IfEnd when the body emitted none
TrueHead(e) == IF e.thi > e.tlo THEN e.tlo ELSE e.ifEnd

\* the head of its false branch: the first node emitted for the alternative,
\* IfEnd when there is no alternative or it emitted none
FalseHead(e) == IF e.fhi > e.thi THEN e.thi ELSE e.ifEnd

\* C5: at the Condition node of every if statement the first stored
\* successor is the head of the true branch and the second stored successor
\* is the head of the false branch.
C5_TrueThenFalse ==
    Built => \A e \in Events("if") : Succ(cfg, e.cond) = <<TrueHead(e), FalseHead(e)>>

\* the innermost frame of a non-empty stack
Top(stack) == stack[Len(stack)]

\* the kind of the node id, "" when id has no node record
TypeOf(g, id) == IF id \in DOMAIN g.Nodes THEN g.Nodes[id].Type ELSE ""

\* C6: every Break emitted inside a loop has exactly one outgoing edge, to
\* the WhileEnd of the innermost loop frame on the stack when the Break was
\* emitted; the frames of nested loops have distinct WhileEnd identifiers.
C6_BreakTargetsInnermostWhileEnd ==
    Built => \A e \in Events("break") :
                e.stack # <<>> =>
                    /\ Succ(cfg, e.id) = <<Top(e.stack).end>>
                    /\ TypeOf(cfg, Top(e.stack).end) = NodeWhileEnd
                    /\ \A i, j \in DOMAIN e.stack : i # j => e.stack[i].end # e.stack[j].end

\* a build with a Break in an inner loop and a Break in the loop around it
C6_Witness ==
    /\ Built
    /\ \E e1, e2 \in Events("break") :
          /\ Len(e1.stack) = 2
          /\ Len(e2.stack) = 1
          /\ e2.stack[1] = e1.stack[1]
          /\ Succ(cfg, e1.id) # Succ(cfg, e2.id)

C10_OneEntryOneExit ==
    Built => /\ NodesOfType(cfg, NodeEntry) = {1}
             /\ Cardinality(NodesOfType(cfg, NodeExit)) = 1

\* a built CFG of more than five nodes whose Exit is not a successor of Entry
C10_Witness ==
    /\ Built
    /\ Cardinality(DOMAIN cfg.Nodes) > 5
    /\ \A x \in NodesOfType(cfg, NodeExit) : \A i \in DOMAIN Succ(cfg, 1) : Succ(cfg, 1)[i] # x

\* C11: after BuildCFG on a fresh builder the keys of Nodes are exactly
\* 1..N, N being the number of nodes and of identifiers handed out; each
\* record sits under its own identifier; the WhileEnd identifier a while
\* reserves before its body has a WhileEnd record and is lower than every
\* identifier of the body.
C11_DenseIdentifiers ==
    Built => /\ DOMAIN cfg.Nodes = 1..(nextID - 1)
             /\ \A id \in DOMAIN cfg.Nodes : cfg.Nodes[id].ID = id
             /\ \A w \in Events("while") :
                   /\ w.cond < w.whileEnd
                   /\ w.whileEnd < w.blo
                   /\ TypeOf(cfg, w.whileEnd) = NodeWhileEnd

\* a build with a while whose body emitted nodes after the reservation of
\* WhileEnd and ended in a break or a continue
C11_Witness ==
    /\ Built
    /\ \E w \in Events("while") : w.bhi > w.blo + 1 /\ w.btail = Terminal

\* the String node of label "Dead", and the Echo node it is the child of
DeadString == {id \in NodesOfType(cfg, NodeString) : cfg.Nodes[id].code = "Dead"}

DeadEcho == {id \in NodesOfType(cfg, NodeEcho) : \E s \in DeadString : Succ(cfg, id) = <<s>>}

\* C12: for the program "$i = 0; while ($i < 10) { $i = $i + 1; if ($i == 5)
\* break; continue; echo "Dead"; } echo "Done";" DetectDeadCode returns
\* exactly two nodes, the Echo of echo "Dead" and its String child.
C12_DeadEchoOnly ==
    (source = WhileProgram /\ scans > 0) =>
        /\ Len(dead) = 2
        /\ Cardinality(DeadEcho) = 1
        /\ Cardinality(DeadString) = 1
        /\ DeadSet = DeadEcho \cup DeadString

\* DetectDeadCode has run on the CFG of that program
C12_Witness ==
    /\ source = WhileProgram
    /\ scans > 0
    /\ DeadSet # {}
    /\ Cardinality(DOMAIN cfg.Nodes) = 29

\* the stored edges that enter id: <<source, position in its list>>
InEdges(g, id) ==
    UNION {{<<k, i>> : i \in {j \in 1..Len(g.Edges[k]) : g.Edges[k][j] = id}} :
              k \in DOMAIN g.Edges}

\* the arguments lowered under the ArgumentList of the call c
ArgumentsOf(c) == {a \in Events("argument") : a.list = c.args}

\* the tail of its last argument, the ArgumentList when it has none
LastArgumentTail(c) ==
    IF ArgumentsOf(c) = {} THEN c.args
    ELSE (CHOOSE a \in ArgumentsOf(c) : \A o \in ArgumentsOf(c) : o.id <= a.id).tail

\* the chain FunctionCall -> Id -> ArgumentList and the Argument successors
\* of ArgumentList, one per child that is not a parenthesis, in child order,
\* each of them the tail its expression was lowered against
CallHead(c) ==
    /\ TypeOf(cfg, c.id) = NodeFunctionCall
    /\ Succ(cfg, c.id) = <<c.name>> /\ TypeOf(cfg, c.name) = NodeId
    /\ Succ(cfg, c.name) = <<c.args>> /\ TypeOf(cfg, c.args) = NodeArgumentList
    /\ Cardinality(ArgumentsOf(c)) = c.argc
    /\ SelectSeq(Succ(cfg, c.args), LAMBDA x : TypeOf(cfg, x) = NodeArgument)
          = ascending({a.id : a \in ArgumentsOf(c)})
    /\ \A a \in ArgumentsOf(c) :
          a.hi > a.id + 1 => Len(Succ(cfg, a.id)) >= 1 /\ Succ(cfg, a.id)[1] = a.id + 1

\* the links CallBegin -> CallEnd -> RetValue, RetValue being what the call
\* returned
CallTail(c) ==
    /\ TypeOf(cfg, c.callBegin) = NodeCallBegin
    /\ Succ(cfg, c.callBegin) = <<c.callEnd>> /\ TypeOf(cfg, c.callEnd) = NodeCallEnd
    /\ Succ(cfg, c.callEnd)[1] = c.retValue /\ TypeOf(cfg, c.retValue) = NodeRetValue
    /\ \A r \in Events("return") : r.id = c.id => r.tail = c.retValue

\* C13: a function call is lowered to FunctionCall -> Id -> ArgumentList,
\* one Argument per non-parenthesis child in child order, CallBegin with a
\* single incoming edge that comes from the tail of the last argument (from
\* ArgumentList when there is none), then CallBegin -> CallEnd -> RetValue.
C13_CallLowering ==
    Built => \A c \in Events("call") :
                /\ CallHead(c)
                /\ \A e \in InEdges(cfg, c.callBegin) : e[1] = LastArgumentTail(c)
                /\ Cardinality(InEdges(cfg, c.callBegin)) = 1
                /\ CallTail(c)

\* the CFG a second, freshly created builder returns for the same source
Rebuilt == buildGraph(NewCFGBuilder, source).cfg

IsScan == scans' = scans + 1

\* C15: DetectDeadCode changes neither Nodes nor Edges, and a second call on
\* the same CFG returns the same set of identifiers as the first.
C15_ScanIsReadOnlyAndRepeatable ==
    [][IsScan => /\ cfg' = cfg
                 /\ scans >= 1 => {dead'[i] : i \in DOMAIN dead'} = DeadSet]_vars

\* two calls in a row on a CFG with dead nodes, the second ranging over the
\* map in another order than the first
C15_Witness ==
    /\ scans = 2
    /\ Len(dead) >= 2
    /\ dead[1] > dead[2]

\* C16: when the parser reports an error BuildCFG returns the error and no
\* CFG, having allocated no identifier and added no node or edge; a call of
\* BuildCFG ends either that way or with a CFG.
C16_ParseErrorLeavesBuilderUntouched ==
    /\ [](ret \in {"none", "ok", "error"})
    /\ [](ret = "error" => nextID = 1 /\ cfg = NewCFG /\ depth = <<>>)
    /\ [][ret' = "error" => cfg' = cfg /\ nextID' = nextID /\ depth' = depth]_vars

\* BuildCFG has returned a parse error
C16_Witness == ret = "error" /\ cfg.Nodes = <<>> /\ cfg.Edges = <<>>

\* the edges that leave the nodes of a lowered if, Condition operands and
\* IfEnd included
EdgesOutOfIf(e) == {p \in EdgePairs(cfg) : p[1] \in e.id..e.ifEnd}

\* C17: an if returns Terminal exactly when the tails of both its branches
\* are Terminal, and then no edge enters its IfEnd and no node emitted after
\* the if receives an edge from it; in every other case it returns IfEnd.
C17_IfTail ==
    Built => \A e \in Events("if") :
                /\ e.tail = Terminal <=> (e.ttail = Terminal /\ e.ftail = Terminal)
                /\ e.tail # Terminal => e.tail = e.ifEnd
                /\ e.tail = Terminal =>
                      /\ InEdges(cfg, e.ifEnd) = {}
                      /\ \A p \in EdgesOutOfIf(e) : p[2] <= e.ifEnd

\* C18: the destination of a break lowered with an empty loop stack is an
\* identifier no node is given during the rest of the build: in the final
\* CFG the edge of that Break leads to no key of Nodes.
C18_BreakOutsideLoopDangles ==
    Built => \A e \in Events("break") :
                e.stack = <<>> =>
                    \A i \in DOMAIN Succ(cfg, e.id) : Succ(cfg, e.id)[i] \notin DOMAIN cfg.Nodes

\* g has the edge src -> dst
HasEdge(g, src, dst) == <<src, dst>> \in EdgePairs(g)

\* an assignment whose incoming tail is live and whose value and target
\* both emitted nodes and left a live tail
PlainAssignment(e) ==
    /\ e.in # Terminal
    /\ e.vhi > e.vlo /\ e.vtail # Terminal
    /\ e.thi > e.tlo /\ e.ttail # Terminal

\* C19: an assignment is lowered to the chain tail -> target -> value ->
\* operator: the LHS target first, then the RHS value, then '='.
C19_TargetThenValue ==
    Built => \A e \in Events("assign") :
                PlainAssignment(e) =>
                    /\ HasEdge(cfg, e.in, e.tlo)
                    /\ HasEdge(cfg, e.ttail, e.vlo)
                    /\ HasEdge(cfg, e.vtail, e.olo)

\* C20: an assignment lowers its last child (the value) first, against the
\* incoming tail, then its first child (the target) against the tail of the
\* value, then the operator: the chain is value -> target -> operator with
\* identifiers increasing in that order, and the operator is the tail the
\* assignment returns.
C20_ValueThenTarget ==
    Built => \A e \in Events("assign") :
                PlainAssignment(e) =>
                    /\ HasEdge(cfg, e.in, e.vlo)
                    /\ HasEdge(cfg, e.vtail, e.tlo)
                    /\ HasEdge(cfg, e.ttail, e.olo)
                    /\ e.vlo < e.tlo /\ e.tlo < e.olo
                    /\ e.tail = e.olo
                    /\ TypeOf(cfg, e.olo) = NodeBinOp /\ cfg.Nodes[e.olo].code = "="

\* a build of "$i = 0": Integer(0) -> Variable($i) -> BinOP(=)
C20_Witness ==
    /\ Built
    /\ \E e \in Events("assign") :
          /\ PlainAssignment(e)
          /\ TypeOf(cfg, e.vlo) = NodeInteger /\ cfg.Nodes[e.vlo].code = "0"
          /\ TypeOf(cfg, e.tlo) = NodeVariable /\ cfg.Nodes[e.tlo].code = "$i"
          /\ e.vtail = e.vlo /\ e.ttail = e.tlo

\* the head of the body of a lowered while: the first node emitted for the
\* body, the While header when the body emitted none
BodyHead(w) == IF w.bhi > w.blo THEN w.blo ELSE w.id

\* the nodes from the Condition of a while to the end of its body that have
\* an edge to its While header
BackSources(w) == {p[1] : p \in {q \in EdgePairs(cfg) : q[2] = w.id /\ q[1] >= w.cond}}

\* the Continue nodes lowered with the frame of that while innermost
ContinuesOf(w) ==
    {e.id : e \in {c \in Events("continue") : c.stack # <<>> /\ Top(c.stack).start = w.id}}

Occurrences(g, src, dst) ==
    Cardinality({i \in DOMAIN Succ(g, src) : Succ(g, src)[i] = dst})

\* the branches of a lowered if whose tail is t
BranchesEndingAt(e, t) ==
    (IF e.ttail = t THEN {"true"} ELSE {}) \cup (IF e.ftail = t THEN {"false"} ELSE {})

\* C22: IfEnd receives one edge from each branch tail that is not Terminal,
\* the edge of the true tail being stored before the edge of the false
\* tail; without else branch the false tail is the Condition, so that the
\* edge Condition -> IfEnd is stored.
C22_IfEndJoin ==
    Built => \A e \in Events("if") :
                /\ \A t \in {e.ttail, e.ftail} \ {Terminal} :
                      Occurrences(cfg, t, e.ifEnd) = Cardinality(BranchesEndingAt(e, t))
                /\ e.ttail # Terminal =>
                      /\ Len(e.joinTrue) >= 1
                      /\ e.joinTrue[Len(e.joinTrue)] = e.ifEnd
                /\ e.ftail # Terminal =>
                      /\ Len(Succ(cfg, e.ftail)) > Len(e.joinFalse)
                      /\ Succ(cfg, e.ftail)[Len(e.joinFalse) + 1] = e.ifEnd
                /\ ~e.hasElse => e.ftail = e.cond /\ HasEdge(cfg, e.cond, e.ifEnd)

\* a build with an if whose two branches end live at different nodes, an if
\* without else, and an if with one branch ending in a jump
C22_Witness ==
    /\ Built
    /\ \E e1, e2, e3 \in Events("if") :
          /\ e1.ttail # Terminal /\ e1.ftail # Terminal /\ e1.ttail # e1.ftail
          /\ ~e2.hasElse
          /\ e3.hasElse /\ e3.ttail = Terminal /\ e3.ftail # Terminal

\* the Break nodes lowered with the frame of that while innermost
BreaksOf(w) ==
    {e \in Events("break") : e.stack # <<>> /\ Top(e.stack).end = w.whileEnd}

\* C23: the WhileEnd identifier is allocated right after the Condition of
\* the loop and before any node of the body, its node record is stored only
\* after the body has been lowered, and it is stored when the visit of the
\* while returns: a break of the body points to an identifier that has no
\* record when the Break is emitted and has one when the while is done.
C23_WhileEndReservedEarly ==
    Built => \A w \in Events("while") :
                /\ w.whileEnd = w.cond + 1
                /\ w.blo = w.whileEnd + 1
                /\ w.whileEnd \notin w.keysBody
                /\ w.whileEnd \in w.keysOut
                /\ \A e \in BreaksOf(w) :
                      /\ e.id > w.whileEnd
                      /\ e.target = w.whileEnd
                      /\ e.target \notin e.keys
                      /\ TypeOf(cfg, e.target) = NodeWhileEnd

\* a build with a break in the body of a while, after other nodes of the body
C23_Witness ==
    /\ Built
    /\ \E w \in Events("while") : \E e \in BreaksOf(w) : e.id > w.blo

\* the frame a while pushes for its body
FrameOf(w) == [typ |-> NodeWhile, start |-> w.id, end |-> w.whileEnd]

\* C24: the loop stack is balanced.  A while lowers its body with exactly
\* its own frame on top of the stack it was entered with and leaves the
\* stack as it found it, also when the tail of the body is Terminal; the
\* stack is empty when BuildCFG has returned.
C24_StackBalanced ==
    Built => /\ depth = <<>>
             /\ \A w \in Events("while") :
                   /\ w.depthBody = Append(w.depthIn, FrameOf(w))
                   /\ w.depthOut = w.depthIn
             /\ \A e \in Events("break") \cup Events("continue") :
                   \A i \in 1..Len(e.stack) :
                      \E w \in Events("while") :
                         /\ e.stack[i] = FrameOf(w)
                         /\ w.blo <= e.id /\ e.id < w.bhi

\* a build with a while nested in a while whose body ends in a jump
C24_Witness ==
    /\ Built
    /\ \E w \in Events("while") :
          /\ w.btail = Terminal
          /\ Len(w.depthIn) = 1
          /\ w.depthOut = w.depthIn

\* the source BuildCFG links to Exit
DriverSource(e) ==
    IF e.last # e.entry /\ e.last # Terminal THEN e.last ELSE e.entry

\* C25: BuildCFG stores exactly one driver edge into Exit, from the tail of
\* the root when that tail is neither Entry nor Terminal and from Entry
\* otherwise: the graph after the driver step is the graph before it with
\* Exit appended to the list of that one source.  Exit is the last
\* identifier allocated and has no outgoing edge.
C25_DriverEdge ==
    Built => \A e \in Events("build") :
                /\ Succ(cfg, DriverSource(e)) = Append(Succ(e.pre, DriverSource(e)), e.exit)
                /\ \A n \in (DOMAIN cfg.Edges \cup DOMAIN e.pre.Edges) \ {DriverSource(e)} :
                      Succ(cfg, n) = Succ(e.pre, n)
                /\ cfg.Nodes = e.pre.Nodes
                /\ TypeOf(cfg, e.exit) = NodeExit
                /\ e.exit = nextID - 1
                /\ Succ(cfg, e.exit) = <<>>

\* a build whose root tail is Terminal, linked from Entry
C25_Witness ==
    /\ Built
    /\ \E e \in Events("build") :
          /\ e.last = Terminal
          /\ Cardinality(DOMAIN cfg.Nodes) > 2
          /\ HasEdge(cfg, e.entry, e.exit)

\* the Continue nodes lowered with no loop frame on the stack
ContinuesOutsideLoop ==
    {e \in Events("continue") : closestLoop(e.stack, Len(e.stack)) = 0}

\* C26: a continue lowered with no loop frame on the stack targets
\* identifier 1: its node has exactly one outgoing edge, to Entry, and the
\* build completes.
C26_ContinueOutsideLoop ==
    \A e \in ContinuesOutsideLoop :
        /\ e.target = 1
        /\ ret = "ok"
        /\ TypeOf(cfg, e.id) = NodeContinue
        /\ Succ(cfg, e.id) = <<1>>
        /\ TypeOf(cfg, 1) = NodeEntry

\* a build with a continue outside any loop, after a while
C26_Witness ==
    /\ Built
    /\ \E e \in ContinuesOutsideLoop : \E w \in Events("while") : w.whileEnd < e.id

\* the call just made is an AddEdge the store accepts
AcceptedAddEdge ==
    /\ lastCall'.op = "AddEdge"
    /\ lastCall'.src # lastCall'.dst
    /\ lastCall'.src # Terminal

\* an accepted AddEdge(src, dst) appends dst to the list of src and touches
\* nothing else
AppendsOnly ==
    AcceptedAddEdge =>
        /\ Succ(cfg', lastCall'.src) = Append(Succ(cfg, lastCall'.src), lastCall'.dst)
        /\ \A n \in (DOMAIN cfg.Edges \cup DOMAIN cfg'.Edges) \ {lastCall'.src} :
              Succ(cfg', n) = Succ(cfg, n)
        /\ cfg'.Nodes = cfg.Nodes

\* what is stored at position i of a list stays at position i
PositionsStable ==
    \A n \in DOMAIN cfg.Edges : \A i \in 1..Len(Succ(cfg, n)) :
        /\ Len(Succ(cfg', n)) >= i
        /\ Succ(cfg', n)[i] = Succ(cfg, n)[i]

\* C27: an accepted AddEdge(src, dst) appends dst at the end of the
\* successor list of src and changes no other list and no node record, also
\* when dst is already in the list; no call on the store moves or removes
\* an entry of a successor list.
C27_AppendOnlyEdges == [][AppendsOnly]_vars /\ [][PositionsStable]_vars

\* AddEdge(src, dst) called on a store whose list of src already holds dst,
\* another source having a list of its own
C27_Witness ==
    /\ lastCall.op = "AddEdge"
    /\ lastCall.src # Terminal
    /\ Succ(cfg, lastCall.src) = <<lastCall.dst, lastCall.dst>>
    /\ \E n \in DOMAIN cfg.Edges \ {lastCall.src} : Succ(cfg, n) # <<>>
    /\ cfg.Nodes # <<>>

\* the stored edges one end of which has no node record
Dangling(g) ==
    {p \in EdgePairs(g) : p[1] \notin DOMAIN g.Nodes \/ p[2] \notin DOMAIN g.Nodes}

\* C28: after BuildCFG has returned, whatever the program (break and
\* continue outside any loop included), the source and the destination of
\* every stored edge are identifiers of nodes present in Nodes.
C28_NoDanglingEdge == Built => Dangling(cfg) = {}

\* a build with a break and a continue outside any loop
C28_Witness ==
    /\ Built
    /\ \E e \in Events("break") : closestLoop(e.stack, Len(e.stack)) = 0
    /\ ContinuesOutsideLoop # {}

\* C29: BuildCFG does not reset the builder.  A build on a builder that
\* has built before starts at the identifier after the previous Exit and
\* adds to the same graph: every node of the earlier builds is still there,
\* the graph has one Entry and one Exit per build, and the Entry of a later
\* build has the identifier of the previous Exit plus one.
C29_BuilderNotReset ==
    /\ Cardinality(NodesOfType(cfg, NodeEntry)) = Len(BuildSeq)
    /\ Cardinality(NodesOfType(cfg, NodeExit)) = Len(BuildSeq)
    /\ Len(BuildSeq) > 0 => nextID = BuildSeq[Len(BuildSeq)].exit + 1
    /\ \A i \in 2..Len(BuildSeq) :
          /\ BuildSeq[i].entry = BuildSeq[i - 1].exit + 1
          /\ TypeOf(cfg, BuildSeq[i].entry) = NodeEntry
          /\ \A id \in DOMAIN BuildSeq[i - 1].pre.Nodes :
                /\ id \in DOMAIN BuildSeq[i].pre.Nodes
                /\ BuildSeq[i].pre.Nodes[id] = BuildSeq[i - 1].pre.Nodes[id]
                /\ id < BuildSeq[i].entry

\* two builds on one builder, both of programs with statements
C29_Witness ==
    /\ Len(BuildSeq) = 2
    /\ ret = "ok"
    /\ BuildSeq[1].exit > 2
    /\ BuildSeq[2].exit > BuildSeq[2].entry + 1
    /\ Cardinality(NodesOfType(cfg, NodeEntry)) = 2
    /\ Cardinality(NodesOfType(cfg, NodeExit)) = 2

\* the ifs whose two branches both ended in a jump
DeadEndedIfs == {e \in Events("if") : e.ttail = Terminal /\ e.ftail = Terminal}

\* C30: when both branches of an if are Terminal the IfEnd node is still
\* emitted, no edge enters it and no edge leaves it, and every DetectDeadCode
\* on the built graph returns it as dead.
C30_IfEndOfDeadEndedIf ==
    Built => \A e \in DeadEndedIfs :
                /\ TypeOf(cfg, e.ifEnd) = NodeIfEnd
                /\ InEdges(cfg, e.ifEnd) = {}
                /\ Succ(cfg, e.ifEnd) = <<>>
                /\ scans > 0 => e.ifEnd \in DeadSet

=============================================================================
